---- MODULE Spec2Model ----
(***************************************************************************)
(* Model of the Wren lexer of src/compiler/lexer.rs: the Token recognizer  *)
(* table declared with derive(Logos) and the scanner that Token::lexer     *)
(* drives over an input, one next() call per step.                         *)
(*                                                                         *)
(* A source text is a sequence of one-character strings; offsets are       *)
(* 0-based as in the Rust code, so the character at offset p is src[p+1].  *)
(***************************************************************************)
EXTENDS Integers, Sequences, FiniteSets, TLC

(* ---------------------------------------------------------------------- *)
(* Bounds of the explored input space                                      *)
(* ---------------------------------------------------------------------- *)
MaxLen == 3

MaxFairLen == 3

FairAlphabet == {"@", "$", "i", "1", ".", " "}

Alphabet == {"i", "f", "_", "0", "1", "x", "+", ".", "=", "/", "*", "\"", " ", "@"}

(* ---------------------------------------------------------------------- *)
(* Character classes of the regex attributes                               *)
(* ---------------------------------------------------------------------- *)
Lower == {"a", "b", "c", "d", "e", "f", "g", "h", "i", "j", "k", "l", "m", "n", "o", "p", "q", "r", "s", "t", "u", "v", "w", "x", "y", "z"}

Upper == {"A", "B", "C", "D", "E", "F", "G", "H", "I", "J", "K", "L", "M", "N", "O", "P", "Q", "R", "S", "T", "U", "V", "W", "X", "Y", "Z"}

Digit == {"0", "1", "2", "3", "4", "5", "6", "7", "8", "9"}

HexDigit == Digit \cup {"a", "b", "c", "d", "e", "f", "A", "B", "C", "D", "E", "F"}

IdentStart == Lower \cup Upper \cup {"_"}

IdentCont == Lower \cup Upper \cup Digit \cup {"_"}

Sign == {"+", "-"}

Whitespace == {" ", "\t", "\n", "\f"}

(* ---------------------------------------------------------------------- *)
(* The recognizer table: one row per #[token] / #[regex] attribute         *)
(* ---------------------------------------------------------------------- *)
DefaultPriority(lit) == 2 * Len(lit)

token(kind, lit) ==
    [kind |-> kind, type |-> "token", pat |-> lit, priority |-> DefaultPriority(lit)]

\* Variant: the priority attribute is dropped.
token_p_ignored(kind, lit, p) ==
    [kind |-> kind, type |-> "token", pat |-> lit, priority |-> DefaultPriority(lit)]

token_p(kind, lit, p) ==
    [kind |-> kind, type |-> "token", pat |-> lit, priority |-> p]

regex(kind, name, p) ==
    [kind |-> kind, type |-> "regex", pat |-> <<name>>, priority |-> p]

Comments == <<
    token("LineComment", <<"/", "/">>),
    token("BlockCommentPrefix", <<"/", "*">>),
    token("BlockCommentSuffix", <<"*", "/">>)
>>

Groupings == <<
    token("OpenParenthesis", <<"(">>),
    token("CloseParenthesis", <<")">>),
    token("OpenBracket", <<"[">>),
    token("CloseBracket", <<"]">>),
    token("OpenBrace", <<"{">>),
    token("CloseBrace", <<"}">>)
>>

ArithmeticOperators == <<
    token("Plus", <<"+">>),
    token("Minus", <<"-">>),
    token("Star", <<"*">>),
    token("Slash", <<"/">>),
    token("Percent", <<"%">>)
>>

LogicalOperators == <<
    token("Negate", <<"!">>),
    token("Equals", <<"=", "=">>),
    token("NotEqual", <<"!", "=">>),
    token("GreaterThan", <<">">>),
    token("LesserThan", <<"<">>),
    token("GreaterThanEqualTo", <<">", "=">>),
    token("LesserThanEqualTo", <<"<", "=">>),
    token("LogicalAnd", <<"&", "&">>),
    token("LogicalOr", <<"|", "|">>),
    token_p("Is", <<"i", "s">>, 10),
    token("Ternary", <<"?">>)
>>

Bitwise == <<
    token("BitwiseXOR", <<"^">>),
    token("BitwiseAnd", <<"&">>),
    token("BitwiseOr", <<"|">>),
    token("BitwiseLeftShift", <<"<", "<">>),
    token("BitwiseRightShift", <<">", ">">>)
>>

Quotation == <<
    token("SingleQuote", <<"'">>),
    token("DoubleQuote", <<"\"">>)
>>

Other == <<
    token("Assignment", <<"=">>),
    token("Dot", <<".">>),
    token("InclusiveRange", <<".", ".">>),
    token("ExclusiveRange", <<".", ".", ".">>),
    token("Comma", <<",">>),
    token("BackSlash", <<"\\">>),
    token("Colon", <<":">>),
    token("HashTag", <<"#">>)
>>

Keywords == <<
    token_p("For", <<"f", "o", "r">>, 10),
    token_p("While", <<"w", "h", "i", "l", "e">>, 10),
    token_p("Break", <<"b", "r", "e", "a", "k">>, 10),
    token_p("Continue", <<"c", "o", "n", "t", "i", "n", "u", "e">>, 10),
    token_p("Return", <<"r", "e", "t", "u", "r", "n">>, 10),
    token_p("If", <<"i", "f">>, 10),
    token_p("Else", <<"e", "l", "s", "e">>, 10),
    token_p("Class", <<"c", "l", "a", "s", "s">>, 10),
    token_p("Construct", <<"c", "o", "n", "s", "t", "r", "u", "c", "t">>, 10),
    token_p("Static", <<"s", "t", "a", "t", "i", "c">>, 10),
    token_p("Super", <<"s", "u", "p", "e", "r">>, 10),
    token_p("This", <<"t", "h", "i", "s">>, 10),
    token_p("True", <<"t", "r", "u", "e">>, 10),
    token_p("False", <<"f", "a", "l", "s", "e">>, 10),
    token_p("Null", <<"n", "u", "l", "l">>, 10),
    token_p("Import", <<"i", "m", "p", "o", "r", "t">>, 10),
    token_p("As", <<"a", "s">>, 10),
    token_p("Var", <<"v", "a", "r">>, 10),
    token_p("In", <<"i", "n">>, 10),
    token_p("Foreign", <<"f", "o", "r", "e", "i", "g", "n">>, 10)
>>

Literals == <<
    regex("Identifier", "ident", 3),
    regex("Hexadecimal", "hex", 2),
    regex("Number", "int", 1),
    regex("Number", "int_dot", 1),
    regex("Number", "dot_frac", 1),
    regex("Number", "int_dot_frac", 1)
>>

\* The Token enum: every recognizer, in declaration order.
Token ==
    Comments \o Groupings \o ArithmeticOperators \o LogicalOperators \o Bitwise
        \o Quotation \o Other \o Keywords \o Literals

Rows == 1..Len(Token)

(* ---------------------------------------------------------------------- *)
(* Matching one recognizer at an offset                                    *)
(* ---------------------------------------------------------------------- *)
EOF == "<eof>"

At(src, p) == IF p < Len(src) THEN src[p + 1] ELSE EOF

RECURSIVE Run(_, _, _)
\* Number of consecutive characters of class cls starting at offset p.
Run(src, p, cls) ==
    IF At(src, p) \in cls THEN 1 + Run(src, p + 1, cls) ELSE 0

\* #[token("...")]: the literal must be a prefix of the text at p.
TokenLen(lit, src, p) ==
    IF /\ p + Len(lit) <= Len(src)
       /\ \A k \in 1..Len(lit) : src[p + k] = lit[k]
    THEN Len(lit) ELSE 0

\* Variant: the continuation class leaves out the digits.
IdentLenNoDigits(src, p) ==
    IF At(src, p) \in IdentStart THEN 1 + Run(src, p + 1, IdentStart) ELSE 0

\* [a-zA-Z_][a-zA-Z0-9_]*
IdentLen(src, p) ==
    IF At(src, p) \in IdentStart THEN 1 + Run(src, p + 1, IdentCont) ELSE 0

\* Variant: 0[xX][0-9a-fA-F]*, the bare prefix is accepted.
HexLenStar(src, p) ==
    IF /\ At(src, p) = "0"
       /\ At(src, p + 1) \in {"x", "X"}
    THEN 2 + Run(src, p + 2, HexDigit) ELSE 0

\* 0[xX][0-9a-fA-F]+
HexLen(src, p) ==
    IF /\ At(src, p) = "0"
       /\ At(src, p + 1) \in {"x", "X"}
       /\ Run(src, p + 2, HexDigit) >= 1
    THEN 2 + Run(src, p + 2, HexDigit) ELSE 0

\* Variant: no sign is part of a number.
SignLenNone(src, p) == 0

\* [+-]?
SignLen(src, p) == IF At(src, p) \in Sign THEN 1 ELSE 0

\* [+-]?\d+
IntLen(src, p) ==
    LET s == SignLen(src, p)
        d == Run(src, p + s, Digit)
    IN  IF d >= 1 THEN s + d ELSE 0

\* [+-]?\d+\.
IntDotLen(src, p) ==
    LET s == SignLen(src, p)
        d == Run(src, p + s, Digit)
    IN  IF d >= 1 /\ At(src, p + s + d) = "." THEN s + d + 1 ELSE 0

\* Variant: [+-]?\.\d*, the fraction digits are optional.
DotFracLenStar(src, p) ==
    LET s == SignLen(src, p)
        f == Run(src, p + s + 1, Digit)
    IN  IF At(src, p + s) = "." THEN s + 1 + f ELSE 0

\* [+-]?\.\d+
DotFracLen(src, p) ==
    LET s == SignLen(src, p)
        f == Run(src, p + s + 1, Digit)
    IN  IF At(src, p + s) = "." /\ f >= 1 THEN s + 1 + f ELSE 0

\* [+-]?\d+\.\d+
IntDotFracLen(src, p) ==
    LET s == SignLen(src, p)
        d == Run(src, p + s, Digit)
        f == Run(src, p + s + d + 1, Digit)
    IN  IF d >= 1 /\ At(src, p + s + d) = "." /\ f >= 1
        THEN s + d + 1 + f ELSE 0

RegexLen(name, src, p) ==
    CASE name = "ident"        -> IdentLen(src, p)
      [] name = "hex"          -> HexLen(src, p)
      [] name = "int"          -> IntLen(src, p)
      [] name = "int_dot"      -> IntDotLen(src, p)
      [] name = "dot_frac"     -> DotFracLen(src, p)
      [] name = "int_dot_frac" -> IntDotFracLen(src, p)

\* Length of the longest match of recognizer r at offset p, 0 for no match.
MatchLen(r, src, p) ==
    IF r.type = "token" THEN TokenLen(r.pat, src, p)
    ELSE RegexLen(r.pat[1], src, p)

(* ---------------------------------------------------------------------- *)
(* Disambiguation: longer beats shorter, specific beats generic            *)
(*                                                                         *)
(* The scanner itself is generated by derive(Logos) from the attributes:   *)
(* at the cursor it takes the longest match, the priority decides between  *)
(* matches of equal length, the skip pattern is passed over silently, and  *)
(* a character nothing matches is returned as Err and stepped over.        *)
(* ---------------------------------------------------------------------- *)
\* Variant: specific beats generic before longer beats shorter.
BetterPriorityFirst(a, b) ==
    \/ a.priority > b.priority
    \/ a.priority = b.priority /\ a.len > b.len

\* Variant: on equal length the lower priority is preferred.
BetterGenericOnTie(a, b) ==
    \/ a.len > b.len
    \/ a.len = b.len /\ a.priority < b.priority

\* Candidate a (a length and a priority) is preferred to candidate b.
Better(a, b) ==
    \/ a.len > b.len
    \/ a.len = b.len /\ a.priority > b.priority

Candidate(i, src, p) ==
    [len |-> MatchLen(Token[i], src, p), priority |-> Token[i].priority]

Matches(src, p) == {i \in Rows : MatchLen(Token[i], src, p) > 0}

\* The row that wins at offset p; only used when Matches(src, p) # {}.
Winner(src, p) ==
    LET M == Matches(src, p)
    IN  CHOOSE i \in M :
            \A j \in M : ~Better(Candidate(j, src, p), Candidate(i, src, p))

RECURSIVE NextQuote(_, _)
\* Offset of the first double quote at or after p, Len(src) when there is none.
NextQuote(src, p) ==
    IF p >= Len(src) \/ src[p + 1] = "\"" THEN p ELSE NextQuote(src, p + 1)

\* Variant: a string mode; after a double quote the text up to the closing
\* quote is passed over like whitespace.
SkipEndStringMode(src, p) ==
    IF p > 0 /\ src[p] = "\"" /\ NextQuote(src, p) < Len(src)
    THEN NextQuote(src, p)
    ELSE p + Run(src, p, Whitespace)

\* #[logos(skip r"[ \t\n\f]+")]: offset just past the whitespace run at p.
SkipEnd(src, p) == p + Run(src, p, Whitespace)

\* Variant: the first unmatched character ends the pass.
ErrorEndFatal(src, p) == Len(src)

\* An unmatched character is reported alone and stepped over.
ErrorEnd(src, p) == p + 1

\* Variant: the slice stops one character early.
SliceOffByOne(src, s, e) == SubSeq(src, s + 1, e - 1)

Slice(src, s, e) == SubSeq(src, s + 1, e)

(* ---------------------------------------------------------------------- *)
(* Inputs: every text over Alphabet up to MaxLen, and the texts of the     *)
(* unit tests                                                              *)
(* ---------------------------------------------------------------------- *)
BoundedTexts == UNION {[1..n -> Alphabet] : n \in 0..MaxLen}

\* The word-like literals of the table are the reserved words.
KeywordRows ==
    {i \in Rows : /\ Token[i].type = "token"
                  /\ \A k \in 1..Len(Token[i].pat) : Token[i].pat[k] \in Lower}

KeywordTexts == {Token[i].pat : i \in KeywordRows}

IdentifiersTest ==
    { <<"h", "i">>,
      <<"c", "a", "m", "e", "l", "C", "a", "s", "e">>,
      <<"P", "a", "s", "c", "a", "l", "C", "a", "s", "e">>,
      <<"_", "u", "n", "d", "e", "r", "_", "s", "c", "o", "r", "e">>,
      <<"A", "L", "L", "_", "C", "A", "P", "S">>,
      <<"b", "r", "e", "a", "k", "r", "e", "t", "u", "r", "n">>,
      <<"i", "f", "l", "a", "l", "a", "l", "a">>,
      <<"_", "c", "o", "n", "t", "i", "n", "u", "e">>,
      <<"_">>,
      <<"a">>,
      <<"X">>,
      <<"_", "_", "p", "y", "t", "h", "o", "n", "_", "l", "o", "v", "e", "s", "_", "t", "h", "i", "s", "_", "_">>,
      <<"_", "1", "2", "3", "4", "5">>,
      <<"_", "A", "B", "_", "1", "2", "3", "_", "C", "_", "2">>,
      <<"A", "1", "2", "3", "4">> }

NumbersTest ==
    { <<"1", "2", "3">>,
      <<"4", "5", "6">>,
      <<"1", "2", "3", "4", "3", "4">>,
      <<"1", "2", "3", "4", ".", "5">>,
      <<"1", "2", ".">>,
      <<"1", "2", "3", "4", "5", ".", "6", "7", "8", "9">>,
      <<".", "4", "5">>,
      <<"+", "2">>,
      <<"-", "2">>,
      <<"+", ".", "1">>,
      <<"+", "2", ".", "1">>,
      <<"-", ".", "5">> }

HexadecimalTest ==
    { <<"0", "x", "1", "2", "3">>,
      <<"0", "X", "A", "B", "F", "E">>,
      <<"0", "x", "6", "0", "C", "D">> }

VariousTest ==
    { <<"o", "k">>,
      <<"N", "u", "h", "_", "u", "h">>,
      <<"1", "2", "3", "w", "h", "y">>,
      <<"J", "e", "s", "u", "s", "N", "o">>,
      <<"v", "a", "l", "i", "d", "1", "2", "3", "4">>,
      <<"_", "1", "2", "3", "_", "W", "O", "W">>,
      <<"L", "O", "L", "1", "2", "3", ".", "4", "5", "6", "L", "O", "L">>,
      <<"W", "h", "y", ".", "b", "r", "o", "t", "h", "e", "r", ".", "w", "h", "y">>,
      <<"w", "t", "f", ".", "1", "2", "3">>,
      <<"N", "A", "H", "H", "H", "+">>,
      <<"N", "A", "H", "H", "H", "H", "H", ".", "+">>,
      <<"+", ".", "+">>,
      <<":", ")">>,
      <<"c", "l", "a", "s", "s", " ", "s", "o", "m", "e", "t", "h", "i", "n", "g", " ", "{", "s", "t", "o", "p", "I", "a", "m", "T", "i", "r", "e", "d", "O", "f", "W", "r", "i", "t", "i", "n", "g", "T", "e", "s", "t", "s", "}">>,
      <<"0", "x", "1", "2", "3", "4">>,
      <<"0", "x", "_", "1", "2", "3", "4">>,
      <<"_", "0", "x", "_", "A", "B">> }

Snippets ==
    { <<"1", "+", "2">>,
      <<"1", ".", ".", "5">>,
      <<"a", ".", ".", ".", "b">>,
      <<"a", "=", "=", "b">>,
      <<"a", " ", "=", " ", "b">>,
      <<"/", "*", " ", "a", " ", "*", "/">>,
      <<"/", "/", " ", "a", "\n", "b">>,
      <<"\"", "a", " ", "b", "\"">>,
      <<"'", "a", "'">>,
      <<"a", " ", "@", " ", "b">>,
      <<"+", "0", "x", "1", "F">>,
      <<"-", ".">>,
      <<"1", "-", ".", "5">>,
      <<"i", "s", "\t", "i", "n", "\n">> }

FairTexts == UNION {[1..n -> FairAlphabet] : n \in 0..MaxFairLen}

Inputs ==
    BoundedTexts \cup KeywordTexts \cup IdentifiersTest \cup NumbersTest
        \cup HexadecimalTest \cup VariousTest \cup Snippets

(* ---------------------------------------------------------------------- *)
(* The scanner                                                             *)
(* ---------------------------------------------------------------------- *)
VARIABLES
    source,       \* the input text
    token_start,  \* start offset of the last result
    token_end,    \* cursor: end offset of the last result
    last,         \* what the last next() returned: "New", "Ok", "Err", "None"
    emitted,      \* history: the results the caller has pulled, in order
    skipped       \* history: the whitespace runs passed over, in order

vars == <<source, token_start, token_end, last, emitted, skipped>>

Init ==
    /\ source \in Inputs
    /\ token_start = 0
    /\ token_end = 0
    /\ last = "New"
    /\ emitted = <<>>
    /\ skipped = <<>>

\* Whitespace passed over by a next() call that starts at the cursor.
Trivia(ws) ==
    IF ws > token_end
    THEN Append(skipped, [start |-> token_end, end |-> ws])
    ELSE skipped

\* next() returns Some(Ok(kind)).
NextOk ==
    LET ws == SkipEnd(source, token_end) IN
    /\ ws < Len(source)
    /\ Matches(source, ws) # {}
    /\ LET w == Winner(source, ws)
           e == ws + MatchLen(Token[w], source, ws)
       IN  /\ token_start' = ws
           /\ token_end' = e
           /\ emitted' = Append(emitted,
                  [kind |-> Token[w].kind, start |-> ws, end |-> e,
                   slice |-> Slice(source, ws, e)])
    /\ skipped' = Trivia(ws)
    /\ last' = "Ok"
    /\ UNCHANGED source

\* next() returns Some(Err(())).
NextErr ==
    LET ws == SkipEnd(source, token_end) IN
    /\ ws < Len(source)
    /\ Matches(source, ws) = {}
    /\ LET e == ErrorEnd(source, ws)
       IN  /\ token_start' = ws
           /\ token_end' = e
           /\ emitted' = Append(emitted,
                  [kind |-> "Error", start |-> ws, end |-> e,
                   slice |-> Slice(source, ws, e)])
    /\ skipped' = Trivia(ws)
    /\ last' = "Err"
    /\ UNCHANGED source

\* next() returns None: only whitespace, or nothing, is left.
NextNone ==
    LET ws == SkipEnd(source, token_end) IN
    /\ ws >= Len(source)
    /\ token_start' = ws
    /\ token_end' = ws
    /\ skipped' = Trivia(ws)
    /\ last' = "None"
    /\ UNCHANGED <<source, emitted>>

Next == NextOk \/ NextErr \/ NextNone

Spec == Init /\ [][Next]_vars

\* The caller keeps pulling until None; the pass is followed to its end on
\* the texts over FairAlphabet up to MaxFairLen and on the snippets.
FairInit ==
    /\ source \in FairTexts \cup Snippets
    /\ token_start = 0
    /\ token_end = 0
    /\ last = "New"
    /\ emitted = <<>>
    /\ skipped = <<>>

FairSpec == FairInit /\ [][Next]_vars /\ WF_vars(Next)

done == last = "None"

(* ---------------------------------------------------------------------- *)
(* Properties                                                              *)
(* ---------------------------------------------------------------------- *)
Tokens == {n \in DOMAIN emitted : emitted[n].kind # "Error"}

Errors == {n \in DOMAIN emitted : emitted[n].kind = "Error"}

Kinds == [n \in DOMAIN emitted |-> emitted[n].kind]

Slices == [n \in DOMAIN emitted |-> emitted[n].slice]

WidthOf(t) == t.end - t.start

\* The text at offset p begins with the literal lit.
StartsWith(lit, p) ==
    /\ p + Len(lit) <= Len(source)
    /\ \A k \in 1..Len(lit) : source[p + k] = lit[k]

\* C1: every emitted token is a longest match at its cursor: no recognizer
\* matches more characters there, and any other recognizer matching exactly
\* as many has a lower priority; "..." gives ExclusiveRange, ".." not
\* followed by a third dot gives InclusiveRange, "==" gives Equals.
LongestMatchLaw ==
    \A n \in Tokens :
        LET t == emitted[n] IN
        /\ \E w \in Rows :
              /\ Token[w].kind = t.kind
              /\ MatchLen(Token[w], source, t.start) = WidthOf(t)
              /\ \A i \in Rows \ {w} :
                    LET m == MatchLen(Token[i], source, t.start) IN
                    /\ m <= WidthOf(t)
                    /\ m = WidthOf(t) => Token[i].priority < Token[w].priority
        /\ StartsWith(<<".", ".", ".">>, t.start) => t.kind = "ExclusiveRange"
        /\ (StartsWith(<<".", ".">>, t.start) /\ At(source, t.start + 2) # ".")
              => t.kind = "InclusiveRange"
        /\ StartsWith(<<"=", "=">>, t.start) => t.kind = "Equals"

\* A keyword matched at the cursor and lost to a longer Identifier.
LongestMatchWitness ==
    \E n \in Tokens :
        /\ emitted[n].kind = "Identifier"
        /\ \E i \in KeywordRows :
              /\ MatchLen(Token[i], source, emitted[n].start) > 0
              /\ MatchLen(Token[i], source, emitted[n].start) < WidthOf(emitted[n])

\* C2: a text that is exactly a reserved word scans to exactly one token, of
\* the kind declared for that word and spanning it, never Identifier.
KeywordAlone ==
    (done /\ source \in KeywordTexts) =>
        /\ Len(emitted) = 1
        /\ emitted[1].kind # "Identifier"
        /\ emitted[1].start = 0 /\ emitted[1].end = Len(source)
        /\ \E i \in KeywordRows :
              Token[i].pat = source /\ Token[i].kind = emitted[1].kind

KeywordAloneWitness ==
    /\ done
    /\ source = <<"c", "o", "n", "t", "i", "n", "u", "e">>
    /\ Kinds = <<"Continue">>

\* [A-Za-z_][A-Za-z0-9_]* as a predicate on a whole text.
IsIdentText(txt) ==
    /\ Len(txt) >= 1
    /\ txt[1] \in IdentStart
    /\ \A k \in 1..Len(txt) : txt[k] \in IdentCont

\* C3: a text of the form [A-Za-z_][A-Za-z0-9_]* that is not a reserved word
\* scans to exactly one Identifier spanning the whole text.
IdentifierAlone ==
    (done /\ IsIdentText(source) /\ source \notin KeywordTexts) =>
        emitted = <<[kind |-> "Identifier", start |-> 0, end |-> Len(source),
                     slice |-> source]>>

\* Texts with a reserved word as a strict prefix, and one with digits.
IdentifierAloneWitness ==
    /\ done
    /\ source \in {<<"b", "r", "e", "a", "k", "r", "e", "t", "u", "r", "n">>,
                   <<"i", "f", "l", "a", "l", "a", "l", "a">>,
                   <<"_", "c", "o", "n", "t", "i", "n", "u", "e">>,
                   <<"_", "1", "2", "3", "4", "5">>}
    /\ Kinds = <<"Identifier">>

\* C4: a Hexadecimal lexeme is 0x or 0X and then one hex digit or more; at a
\* cursor on 0x or 0X with no hex digit after it the token is the Number "0"
\* and the next result is an Identifier starting at the x.
HexNeedsDigit ==
    /\ \A n \in Tokens :
          LET t == emitted[n] IN
          /\ t.kind = "Hexadecimal" =>
                /\ WidthOf(t) >= 3
                /\ t.slice[1] = "0"
                /\ t.slice[2] \in {"x", "X"}
                /\ \A k \in 3..Len(t.slice) : t.slice[k] \in HexDigit
          /\ ( /\ At(source, t.start) = "0"
               /\ At(source, t.start + 1) \in {"x", "X"}
               /\ At(source, t.start + 2) \notin HexDigit ) =>
                /\ t.kind = "Number"
                /\ WidthOf(t) = 1
                /\ n < Len(emitted) =>
                      /\ emitted[n + 1].kind = "Identifier"
                      /\ emitted[n + 1].start = t.start + 1
    /\ (done /\ source = <<"0", "x", "_", "1", "2", "3", "4">>) =>
          /\ Kinds = <<"Number", "Identifier">>
          /\ Slices = <<<<"0">>, <<"x", "_", "1", "2", "3", "4">>>>
    /\ (done /\ source = <<"0", "x", "1", "2", "3", "4">>) =>
          /\ Kinds = <<"Hexadecimal">>
          /\ Slices = <<source>>

HexNeedsDigitWitness ==
    /\ done
    /\ source = <<"0", "x", "_", "1", "2", "3", "4">>
    /\ Len(emitted) = 2

\* Number of emitted results and skipped runs whose span contains offset o.
CoverCount(o) ==
    Cardinality({n \in DOMAIN emitted : emitted[n].start <= o /\ o < emitted[n].end})
      + Cardinality({n \in DOMAIN skipped : skipped[n].start <= o /\ o < skipped[n].end})

\* The spans of sequence sq are non-empty, inside the text and in order.
Ordered(sq) ==
    /\ \A n \in DOMAIN sq :
          0 <= sq[n].start /\ sq[n].start < sq[n].end /\ sq[n].end <= Len(source)
    /\ \A n \in DOMAIN sq : n > 1 => sq[n - 1].end <= sq[n].start

\* C5: the spans of the emitted tokens, the reported errors and the skipped
\* whitespace runs are non-empty, in increasing order, and cover every
\* offset before the cursor exactly once; at end of input the cursor is the
\* length of the text; every lexeme is the text of its span.
CoverageLaw ==
    /\ Ordered(emitted)
    /\ Ordered(skipped)
    /\ \A o \in 0..(Len(source) - 1) :
          CoverCount(o) = IF o < token_end THEN 1 ELSE 0
    /\ \A n \in DOMAIN skipped :
          \A o \in skipped[n].start..(skipped[n].end - 1) :
              At(source, o) \in Whitespace
    /\ \A n \in DOMAIN emitted :
          /\ Len(emitted[n].slice) = WidthOf(emitted[n])
          /\ \A k \in 1..WidthOf(emitted[n]) :
                emitted[n].slice[k] = source[emitted[n].start + k]
    /\ done => token_end = Len(source)

\* A finished pass with a token, an error and a whitespace run.
CoverageWitness ==
    /\ done
    /\ Tokens # {}
    /\ Errors # {}
    /\ skipped # <<>>
    /\ Len(source) >= 3

\* No recognizer and no whitespace skip accepts the one-character text <<c>>.
Unrecognized(c) ==
    /\ c \notin Whitespace
    /\ \A i \in Rows : MatchLen(Token[i], <<c>>, 0) = 0

\* Every error is one character at a cursor where nothing matches, tokens
\* are emitted only where something matches, an error leaves the pass able
\* to go on, and a finished pass has reported every unrecognized character
\* exactly once.
ErrorsInv ==
    /\ \A n \in Errors :
          /\ emitted[n].end = emitted[n].start + 1
          /\ \A i \in Rows : MatchLen(Token[i], source, emitted[n].start) = 0
          /\ emitted[n].slice = <<source[emitted[n].start + 1]>>
    /\ \A n \in Tokens :
          \E i \in Rows : MatchLen(Token[i], source, emitted[n].start) > 0
    /\ last = "Err" => (token_end = token_start + 1 /\ ENABLED Next)
    /\ done =>
          \A o \in 0..(Len(source) - 1) :
              Unrecognized(source[o + 1]) =>
                  Cardinality({n \in Errors : emitted[n].start = o}) = 1

\* C6: an unmatched character is reported as one error of one character at
\* the cursor, the cursor moves past it by one, scanning goes on, every pass
\* reaches end of input, and every unrecognized character is reported once.
RecoverableErrors == []ErrorsInv /\ <>done

\* A finished pass that reported two errors and a token after the first.
RecoverableErrorsWitness ==
    /\ done
    /\ Cardinality(Errors) = 2
    /\ \E n \in Errors : \E m \in Tokens : n < m

\* The text from offset p to the end.
Suffix(p) == SubSeq(source, p + 1, Len(source))

\* What a fresh scanner makes of the start of text txt, which does not begin
\* with whitespace: <<kind, width>>.
Fresh(txt) ==
    IF Matches(txt, 0) = {} THEN <<"Error", 1>>
    ELSE <<Token[Winner(txt, 0)].kind, MatchLen(Token[Winner(txt, 0)], txt, 0)>>

\* C7: each result is the one a fresh scanner gives on the text from the
\* result's start onward; between two results only whitespace is passed
\* over, also after a comment or quotation marker; and every quote
\* character before the cursor is a one-character quote token of its own.
ModeFree ==
    /\ \A n \in DOMAIN emitted :
          /\ <<emitted[n].kind, WidthOf(emitted[n])>> = Fresh(Suffix(emitted[n].start))
          /\ \A o \in (IF n = 1 THEN 0 ELSE emitted[n - 1].end)..(emitted[n].start - 1) :
                At(source, o) \in Whitespace
    /\ \A o \in 0..(token_end - 1) :
          /\ source[o + 1] = "\"" =>
                \E n \in Tokens : /\ emitted[n].kind = "DoubleQuote"
                                  /\ emitted[n].start = o /\ emitted[n].end = o + 1
          /\ source[o + 1] = "'" =>
                \E n \in Tokens : /\ emitted[n].kind = "SingleQuote"
                                  /\ emitted[n].start = o /\ emitted[n].end = o + 1

\* A marker was emitted and the text after it was tokenized: a quoted word
\* and the body of a block comment.
ModeFreeWitness ==
    /\ done
    /\ \E n \in Tokens :
          /\ emitted[n].kind \in {"DoubleQuote", "BlockCommentPrefix"}
          /\ n + 1 \in Tokens
          /\ emitted[n + 1].kind = "Identifier"
          /\ n + 2 \in Tokens
          /\ emitted[n + 2].kind \in {"DoubleQuote", "BlockCommentSuffix"}

\* C8 as stated: exactly 22 reserved words, each an exact literal with
\* priority 10.
KeywordTable22 ==
    /\ Cardinality(KeywordRows) = 22
    /\ \A i \in KeywordRows : Token[i].type = "token" /\ Token[i].priority = 10
    /\ \A n \in Tokens :
          \A i \in KeywordRows :
              emitted[n].kind = Token[i].kind => emitted[n].slice = Token[i].pat

\* C8 amended: exactly 21 reserved words, each an exact literal with
\* priority 10, no other recognizer has that priority, and a token of a
\* keyword kind has exactly the keyword as its lexeme.
KeywordTable21 ==
    /\ Cardinality(KeywordRows) = 21
    /\ Cardinality(KeywordTexts) = 21
    /\ \A i \in Rows : Token[i].priority = 10 <=> i \in KeywordRows
    /\ \A i \in KeywordRows : Token[i].type = "token"
    /\ \A n \in Tokens :
          \A i \in KeywordRows :
              emitted[n].kind = Token[i].kind => emitted[n].slice = Token[i].pat

\* A keyword token was emitted in the middle of a text.
KeywordTableWitness ==
    /\ done
    /\ Kinds = <<"Class", "Identifier", "OpenBrace", "Identifier", "CloseBrace">>

\* A Number can start at offset p: an optional sign, then a digit or a dot
\* and a digit.
NumberStartsAt(p) ==
    LET q == IF At(source, p) \in Sign THEN p + 1 ELSE p
    IN  \/ At(source, q) \in Digit
        \/ At(source, q) = "." /\ At(source, q + 1) \in Digit

NumberHasDigit ==
    \A n \in Tokens :
        emitted[n].kind = "Number" =>
            \E k \in 1..Len(emitted[n].slice) : emitted[n].slice[k] \in Digit

NumberExamples ==
    /\ (done /\ source = <<"+", ".", "+">>) => Kinds = <<"Plus", "Dot", "Plus">>
    /\ (done /\ source = <<"N", "A", "H", "H", "H", "H", "H", ".", "+">>) =>
          Kinds = <<"Identifier", "Dot", "Plus">>

\* C9 as stated: every Number lexeme has a digit, and a sign or dot at the
\* cursor that no Number shape can start from is emitted as Plus, Minus or
\* Dot.
SignDotNotAbsorbed ==
    /\ NumberHasDigit
    /\ NumberExamples
    /\ \A n \in DOMAIN emitted :
          LET c == At(source, emitted[n].start) IN
          (c \in {"+", "-", "."} /\ ~NumberStartsAt(emitted[n].start)) =>
              /\ c = "+" => emitted[n].kind = "Plus"
              /\ c = "-" => emitted[n].kind = "Minus"
              /\ c = "." => emitted[n].kind = "Dot"

\* C9 amended: every Number lexeme has a digit, and a sign or dot at the
\* cursor that no Number shape can start from is emitted as Plus, as Minus,
\* or as the literal made of the dots there: Dot, InclusiveRange for two,
\* ExclusiveRange for three or more.
SignDotNotAbsorbedOrRange ==
    /\ NumberHasDigit
    /\ NumberExamples
    /\ \A n \in DOMAIN emitted :
          LET c == At(source, emitted[n].start)
              dots == Run(source, emitted[n].start, {"."})
          IN
          (c \in {"+", "-", "."} /\ ~NumberStartsAt(emitted[n].start)) =>
              /\ c = "+" => emitted[n].kind = "Plus"
              /\ c = "-" => emitted[n].kind = "Minus"
              /\ (c = "." /\ dots = 1) => emitted[n].kind = "Dot"
              /\ (c = "." /\ dots = 2) => emitted[n].kind = "InclusiveRange"
              /\ (c = "." /\ dots >= 3) => emitted[n].kind = "ExclusiveRange"

SignDotWitness ==
    /\ done
    /\ source = <<"+", ".", "+">>
    /\ Len(emitted) = 3

\* C10: at a cursor where a Number can start the token is a Number, or a
\* Hexadecimal when the text begins with 0x or 0X, it takes in the sign and
\* the leading dot, and a Number is greedy: no digit follows it, and a dot
\* follows it only when it already holds one.
NumberGreedy ==
    /\ \A n \in DOMAIN emitted :
          LET t == emitted[n] IN
          /\ NumberStartsAt(t.start) =>
                /\ t.kind \in {"Number", "Hexadecimal"}
                /\ t.kind = "Hexadecimal" => At(source, t.start + 1) \in {"x", "X"}
                /\ \E k \in 1..Len(t.slice) :
                      /\ t.slice[k] \in Digit
                      /\ \A j \in 1..(k - 1) : t.slice[j] \in Sign \cup {"."}
          /\ t.kind = "Number" =>
                /\ At(source, t.end) \notin Digit
                /\ At(source, t.end) = "." => \E k \in 1..Len(t.slice) : t.slice[k] = "."
    /\ (done /\ source = <<"w", "t", "f", ".", "1", "2", "3">>) =>
          /\ Kinds = <<"Identifier", "Number">>
          /\ Slices[2] = <<".", "1", "2", "3">>
    /\ (done /\ source = <<"1", "+", "2">>) =>
          /\ Kinds = <<"Number", "Number">>
          /\ Slices = <<<<"1">>, <<"+", "2">>>>
    /\ (done /\ source = <<"1", ".", ".", "5">>) =>
          /\ Kinds = <<"Number", "Number">>
          /\ Slices = <<<<"1", ".">>, <<".", "5">>>>

NumberGreedyWitness ==
    /\ done
    /\ source \in {<<"1", "+", "2">>, <<"1", ".", ".", "5">>}
    /\ Len(emitted) = 2

====
